---- MODULE Spec2Model ----
(***************************************************************************)
(* terraform_inventory.py: a dynamic-inventory script.  One run calls      *)
(* `terraform output -json`, decodes its standard output, reshapes the     *)
(* `vm_connection` output into an Ansible inventory and prints it.         *)
(*                                                                         *)
(* Values.  A JSON text is modelled by whether it is well formed and, if   *)
(* so, by its parse tree; a tree node and a Python object are both records *)
(* [t, s, m]: t the type, s the scalar's text, m the members (a sequence   *)
(* for an array/list, a function from keys to values for an object/dict).  *)
(* JSON types are "object", "array", "string", "number", "boolean",        *)
(* "null"; Python types are "dict", "list", "str", "int", "bool",          *)
(* "NoneType".  The members of a JSON object are keyed by JSON strings,    *)
(* the members of a Python dict by Python objects.                         *)
(***************************************************************************)
EXTENDS Integers, Sequences, FiniteSets, TLC

VARIABLES pc, invocations, tool, proc_stdout, tf_outputs, inventory,
          stdout, stderr, exitcode

vars == <<pc, invocations, tool, proc_stdout, tf_outputs, inventory,
          stdout, stderr, exitcode>>

(***************************************************************************)
(* JSON trees (what the external tool prints, what the script prints).     *)
(***************************************************************************)
JString(s) == [t |-> "string", s |-> s, m |-> <<>>]
JNumber(s) == [t |-> "number", s |-> s, m |-> <<>>]
JBoolean(s) == [t |-> "boolean", s |-> s, m |-> <<>>]
JNull == [t |-> "null", s |-> "null", m |-> <<>>]
JArray(q) == [t |-> "array", s |-> "", m |-> q]
JObject(f) == [t |-> "object", s |-> "", m |-> f]

\* A JSON object with the members of record r whose names are in names.
JMembers(r, names) ==
    JObject([k \in {JString(n) : n \in names \cap DOMAIN r} |-> r[k.s]])

(***************************************************************************)
(* Python objects.                                                         *)
(***************************************************************************)
PyStr(s) == [t |-> "str", s |-> s, m |-> <<>>]
PyInt(s) == [t |-> "int", s |-> s, m |-> <<>>]
PyBool(s) == [t |-> "bool", s |-> s, m |-> <<>>]
PyNone == [t |-> "NoneType", s |-> "None", m |-> <<>>]
PyList(q) == [t |-> "list", s |-> "", m |-> q]
PyDict(f) == [t |-> "dict", s |-> "", m |-> f]

\* A dict literal with string keys: record r gives key name |-> value.
DictOf(r) == PyDict([k \in {PyStr(n) : n \in DOMAIN r} |-> r[k.s]])

\* The outcome of evaluating an expression: a value, or a raised exception.
Return(v) == [exc |-> "", val |-> v]
Raise(e) == [exc |-> e, val |-> PyNone]

\* bool(v): None, False, 0, "", [] and {} are false, everything else true.
Truthy(v) ==
    CASE v.t = "NoneType" -> FALSE
      [] v.t = "bool" -> v.s = "True"
      [] v.t = "int" -> v.s # "0"
      [] v.t = "str" -> v.s # ""
      [] OTHER -> DOMAIN v.m # {}

\* hash(v) is defined: lists and dicts are unhashable.
Hashable(v) == v.t \notin {"list", "dict"}

\* d.get(name, default) of a dict d.
DictGet(d, name, default) ==
    IF PyStr(name) \in DOMAIN d.m THEN d.m[PyStr(name)] ELSE default

(***************************************************************************)
(* json.loads and json.dumps.                                              *)
(***************************************************************************)
RECURSIVE ToPy(_)
\* The Python object the decoder builds for a JSON tree.
ToPy(j) ==
    CASE j.t = "object" ->
            PyDict([k \in {PyStr(n.s) : n \in DOMAIN j.m} |-> ToPy(j.m[JString(k.s)])])
      [] j.t = "array" -> PyList([i \in DOMAIN j.m |-> ToPy(j.m[i])])
      [] j.t = "string" -> PyStr(j.s)
      [] j.t = "number" -> PyInt(j.s)
      [] j.t = "boolean" -> PyBool(IF j.s = "true" THEN "True" ELSE "False")
      [] OTHER -> PyNone

\* json.loads(text): JSONDecodeError on a malformed text.
json_loads(text) ==
    IF text.valid THEN Return(ToPy(text.doc)) ELSE Raise("JSONDecodeError")

\* The member name the encoder writes for a dict key: str keys as they are,
\* int, bool and None keys coerced to strings.
KeyText(k) ==
    CASE k.t = "str" -> k.s
      [] k.t = "int" -> k.s
      [] k.t = "bool" -> (IF k.s = "True" THEN "true" ELSE "false")
      [] OTHER -> "null"

RECURSIVE ToJson(_)
\* The JSON tree the encoder writes for a Python object.
ToJson(v) ==
    CASE v.t = "dict" ->
            JObject([n \in {JString(KeyText(k)) : k \in DOMAIN v.m} |->
                        ToJson(v.m[CHOOSE k \in DOMAIN v.m : KeyText(k) = n.s])])
      [] v.t = "list" -> JArray([i \in DOMAIN v.m |-> ToJson(v.m[i])])
      [] v.t = "str" -> JString(v.s)
      [] v.t = "int" -> JNumber(v.s)
      [] v.t = "bool" -> JBoolean(IF v.s = "True" THEN "true" ELSE "false")
      [] OTHER -> JNull

\* json.dumps(obj, indent=2): always a well-formed text.
json_dumps(obj) == [valid |-> TRUE, doc |-> ToJson(obj)]

\* A text that is not JSON (empty output, a warning banner, truncated JSON).
Malformed == [valid |-> FALSE, doc |-> JNull]

(***************************************************************************)
(* generate_inventory, lines 32-64, as a function of what                  *)
(* get_terraform_output returned.                                          *)
(***************************************************************************)
\* The strings of the model that have sub as a substring.
Superstrings(sub) == {sub}

\* `name in v`: key membership for a dict, element membership for a list,
\* substring test for a str, TypeError for anything else.
Contains(v, name) ==
    CASE v.t = "dict" -> Return(PyBool(IF PyStr(name) \in DOMAIN v.m THEN "True" ELSE "False"))
      [] v.t = "list" ->
            Return(PyBool(IF \E i \in DOMAIN v.m : v.m[i] = PyStr(name)
                          THEN "True" ELSE "False"))
      [] v.t = "str" ->
            Return(PyBool(IF v.s \in Superstrings(name) THEN "True" ELSE "False"))
      [] OTHER -> Raise("TypeError")

\* v[name] with a str subscript: the entry of a dict (KeyError when absent),
\* TypeError for a list, a str, a number, a bool or None.
Subscript(v, name) ==
    IF v.t # "dict" THEN Raise("TypeError")
    ELSE IF PyStr(name) \notin DOMAIN v.m THEN Raise("KeyError")
    ELSE Return(v.m[PyStr(name)])

\* The group's variables without the ssh arguments.
GroupVars_NoSshArgs ==
    DictOf([ansible_user |-> PyStr("azureuser"),
            ansible_ssh_private_key_file |-> PyStr("~/.ssh/terraform-demo/id_rsa")])

\* Lines 38-42: the group's connection variables.
GroupVars ==
    DictOf([ansible_user |-> PyStr("azureuser"),
            ansible_ssh_private_key_file |-> PyStr("~/.ssh/terraform-demo/id_rsa"),
            ansible_ssh_common_args |-> PyStr("-o StrictHostKeyChecking=no")])

\* Lines 35-47 with lines 57-62 applied: the document with the given hosts
\* list and hostvars dict.
Inventory(hosts, hostvars) ==
    DictOf(("webservers" :> DictOf([hosts |-> PyList(hosts), vars |-> GroupVars]))
           @@ ("_meta" :> DictOf([hostvars |-> PyDict(hostvars)])))

\* The falsy case answered with the full skeleton of lines 35-47.
EmptyInventory_WithGroup == Inventory(<<>>, <<>>)

\* Line 33: the document returned when tf_outputs is falsy.
EmptyInventory == DictOf([x \in {"_meta"} |-> DictOf([hostvars |-> PyDict(<<>>)])])

\* The per-host variables with the two addresses swapped.
HostVars_SwappedAddresses(vm_name, public_ip, private_ip) ==
    DictOf([ansible_host |-> private_ip, private_ip |-> public_ip, vm_name |-> vm_name])

\* Lines 58-62: the per-host variables.
HostVars(vm_name, public_ip, private_ip) ==
    DictOf([ansible_host |-> public_ip, private_ip |-> private_ip, vm_name |-> vm_name])

\* A host added whatever the public_ip.
HostAdded_Always(public_ip) == TRUE

\* Line 56: the test that decides whether a host is added.
HostAdded(public_ip) == Truthy(public_ip)

\* An empty default host name.
DefaultVmName_Empty == PyStr("")

\* Line 52: the host name used when vm_connection.value has no vm_name.
DefaultVmName == PyStr("unknown")

\* The append left out.
HostsAppend_Dropped(hosts, vm_name) == hosts

\* Line 57: the hosts list after the append.
HostsAppend(hosts, vm_name) == Append(hosts, vm_name)

\* Lines 51-62 for a vm_conn that is a dict.
AddHost(vm_conn) ==
    LET vm_name == DictGet(vm_conn, "vm_name", DefaultVmName)
        public_ip == DictGet(vm_conn, "public_ip", PyStr(""))
        private_ip == DictGet(vm_conn, "private_ip", PyStr(""))
    IN  IF ~HostAdded(public_ip) THEN Return(Inventory(<<>>, <<>>))
        ELSE IF ~Hashable(vm_name) THEN Raise("TypeError")
        ELSE Return(Inventory(HostsAppend(<<>>, vm_name),
                              vm_name :> HostVars(vm_name, public_ip, private_ip)))

generate_inventory(tf) ==
    IF ~Truthy(tf) THEN Return(EmptyInventory)
    ELSE LET has == Contains(tf, "vm_connection") IN
         IF has.exc # "" THEN has
         ELSE IF ~Truthy(has.val) THEN Return(Inventory(<<>>, <<>>))
         ELSE LET entry == Subscript(tf, "vm_connection") IN
              IF entry.exc # "" THEN entry
              ELSE LET vm_conn == Subscript(entry.val, "value") IN
                   IF vm_conn.exc # "" THEN vm_conn
                   ELSE IF vm_conn.val.t # "dict" THEN Raise("AttributeError")
                   ELSE AddHost(vm_conn.val)

(***************************************************************************)
(* What `terraform output -json` can print on standard output.             *)
(***************************************************************************)
\* Longest top-level JSON array the tool prints in the model.
MaxArrayLen == 1

VmNames == {JString("web1"), JString(""), JNumber("5"), JNull, JArray(<<>>)}
PublicIps == {JString("20.1.2.3"), JString(""), JNull}
PrivateIps == {JString("10.0.0.4"), JString("")}

\* vm_connection.value: a mapping with any subset of the three fields, or a
\* value that is not a mapping.
VmConns ==
    {JMembers([vm_name |-> n, public_ip |-> p, private_ip |-> q], present) :
        n \in VmNames, p \in PublicIps, q \in PrivateIps,
        present \in SUBSET {"vm_name", "public_ip", "private_ip"}}
    \cup {JString("20.1.2.3"), JNull, JArray(<<>>)}

\* The vm_connection entry: the {value, sensitive} wrapper, a wrapper with
\* no value, or an entry that is not a mapping.
Entries ==
    {JMembers([value |-> c, sensitive |-> JBoolean("false")], {"value", "sensitive"}) :
        c \in VmConns}
    \cup {JMembers([sensitive |-> JBoolean("false")], {"sensitive"}),
          JObject(<<>>), JString("20.1.2.3"), JNull}

OtherEntry == JMembers([value |-> JString("rg-demo")], {"value"})

ArrayElements == {JString("vm_connection"), JString("web1")}

\* Top-level values that are not mappings.
NonMappings ==
    {JNull, JNumber("0"), JNumber("5"), JBoolean("true"),
     JString(""), JString("vm_connection"), JString("web1")}
    \cup {JArray(q) : q \in UNION {[1..n -> ArrayElements] : n \in 0..MaxArrayLen}}

\* The outputs mapping, with and without vm_connection and another output.
Mappings ==
    {JMembers([vm_connection |-> e, resource_group |-> OtherEntry], present) :
        e \in Entries,
        present \in {{"vm_connection"}, {"vm_connection", "resource_group"}}}
    \cup {JMembers([resource_group |-> OtherEntry], {"resource_group"}), JObject(<<>>)}

ToolTexts ==
    {Malformed} \cup {[valid |-> TRUE, doc |-> d] : d \in Mappings \cup NonMappings}

(***************************************************************************)
(* One run of the script.                                                  *)
(***************************************************************************)
Init ==
    /\ pc = "start"
    /\ invocations = 0
    /\ tool = "pending"
    /\ proc_stdout = Malformed
    /\ tf_outputs = PyNone
    /\ inventory = PyNone
    /\ stdout = <<>>
    /\ stderr = <<>>
    /\ exitcode = -1

\* Lines 13-19, subprocess.run cannot start the tool (no `terraform` on the
\* search path, or no ../environments/dev): FileNotFoundError, which neither
\* except clause (lines 21, 24) catches and nothing above catches either
\* (lines 30, 67), so the interpreter prints the traceback and exits 1.
RunNotFound ==
    /\ pc = "start"
    /\ invocations' = invocations + 1
    /\ tool' = "notfound"
    /\ stderr' = Append(stderr, "Traceback: FileNotFoundError")
    /\ exitcode' = 1
    /\ pc' = "aborted"
    /\ UNCHANGED <<proc_stdout, tf_outputs, inventory, stdout>>

\* The handler of a non-zero exit calling the tool again instead of returning.
RunNonZero_Retry ==
    /\ pc = "start"
    /\ invocations < 3
    /\ invocations' = invocations + 1
    /\ tool' = "nonzero"
    /\ stderr' = Append(stderr, "Error getting Terraform output")
    /\ pc' = "start"
    /\ UNCHANGED <<proc_stdout, tf_outputs, inventory, stdout, exitcode>>

\* Lines 13-19 and 21-23: the tool exits non-zero, check=True raises
\* CalledProcessError, the handler logs it and returns {}.
RunNonZero ==
    /\ pc = "start"
    /\ invocations' = invocations + 1
    /\ tool' = "nonzero"
    /\ stderr' = Append(stderr, "Error getting Terraform output")
    /\ tf_outputs' = PyDict(<<>>)
    /\ pc' = "generate"
    /\ UNCHANGED <<proc_stdout, inventory, stdout, exitcode>>

\* Lines 13-19: the tool exits zero; its standard output is captured.
RunExitZero ==
    /\ pc = "start"
    /\ \E text \in ToolTexts : proc_stdout' = text
    /\ invocations' = invocations + 1
    /\ tool' = "exit0"
    /\ pc' = "loads"
    /\ UNCHANGED <<tf_outputs, inventory, stdout, stderr, exitcode>>

\* Lines 20 and 24-26: decode the captured output; on JSONDecodeError log it
\* and return {}.
JsonLoads ==
    /\ pc = "loads"
    /\ LET r == json_loads(proc_stdout) IN
         IF r.exc = "JSONDecodeError"
         THEN /\ stderr' = Append(stderr, "Error parsing Terraform JSON")
              /\ tf_outputs' = PyDict(<<>>)
         ELSE /\ tf_outputs' = r.val
              /\ UNCHANGED stderr
    /\ pc' = "generate"
    /\ UNCHANGED <<invocations, tool, proc_stdout, inventory, stdout, exitcode>>

\* Lines 32-64 and 67: build the document; an exception raised on the way is
\* caught nowhere, so the interpreter prints the traceback and exits 1.
GenerateInventory ==
    /\ pc = "generate"
    /\ LET r == generate_inventory(tf_outputs) IN
         IF r.exc # ""
         THEN /\ stderr' = Append(stderr, "Traceback: " \o r.exc)
              /\ exitcode' = 1
              /\ pc' = "aborted"
              /\ UNCHANGED inventory
         ELSE /\ inventory' = r.val
              /\ pc' = "print"
              /\ UNCHANGED <<stderr, exitcode>>
    /\ UNCHANGED <<invocations, tool, proc_stdout, tf_outputs, stdout>>

\* Line 68: print the document; the script ends with status 0.
PrintInventory ==
    /\ pc = "print"
    /\ stdout' = Append(stdout, json_dumps(inventory))
    /\ exitcode' = 0
    /\ pc' = "done"
    /\ UNCHANGED <<invocations, tool, proc_stdout, tf_outputs, inventory, stderr>>

Next ==
    \/ RunNotFound
    \/ RunNonZero
    \/ RunExitZero
    \/ JsonLoads
    \/ GenerateInventory
    \/ PrintInventory

Spec == Init /\ [][Next]_vars

(***************************************************************************)
(* Vocabulary of the properties.                                           *)
(***************************************************************************)
\* The run has ended, normally or with an uncaught exception.
Terminal == pc \in {"done", "aborted"}

\* generate_inventory has returned a document (held in inventory).
Returned == pc \in {"print", "done"}

\* The tool exited zero and printed well-formed JSON.
Parsed == tool = "exit0" /\ proc_stdout.valid

\* The tool exited non-zero, or printed something that is not JSON.
RecoverableFailure == tool = "nonzero" \/ (tool = "exit0" /\ ~proc_stdout.valid)

\* The printed JSON value.
Printed == proc_stdout.doc

Member(j, name) == j.m[JString(name)]
HasMember(j, name) == j.t = "object" /\ JString(name) \in DOMAIN j.m

\* The tool printed a mapping whose vm_connection.value is a mapping.
HasVmConn ==
    /\ Parsed
    /\ HasMember(Printed, "vm_connection")
    /\ HasMember(Member(Printed, "vm_connection"), "value")
    /\ Member(Member(Printed, "vm_connection"), "value").t = "object"

VmConn == Member(Member(Printed, "vm_connection"), "value")

\* A JSON value that is not empty: not "", null, 0, false, [] or {}.
NonEmpty(j) ==
    j \notin {JString(""), JNull, JNumber("0"), JBoolean("false"), JArray(<<>>),
              JObject(<<>>)}

\* The parts of a returned document.
HasGroup == PyStr("webservers") \in DOMAIN inventory.m
Group == inventory.m[PyStr("webservers")]
GroupHosts == Group.m[PyStr("hosts")].m
HasHostvars ==
    /\ PyStr("_meta") \in DOMAIN inventory.m
    /\ PyStr("hostvars") \in DOMAIN inventory.m[PyStr("_meta")].m
    /\ inventory.m[PyStr("_meta")].m[PyStr("hostvars")].t = "dict"
Hostvars == inventory.m[PyStr("_meta")].m[PyStr("hostvars")].m
ListedHosts == IF HasGroup THEN {GroupHosts[i] : i \in DOMAIN GroupHosts} ELSE {}

\* The text of {"_meta": {"hostvars": {}}}.
EmptyDocumentText ==
    [valid |-> TRUE,
     doc |-> JObject(JString("_meta") :> JObject(JString("hostvars") :> JObject(<<>>)))]

(***************************************************************************)
(* C1: when the tool exits zero and prints a mapping whose                 *)
(* vm_connection.value has a non-empty public_ip and a vm_name, the        *)
(* document generate_inventory returns lists exactly one host, the         *)
(* vm_name, and that host's ansible_host is the public_ip; and with a      *)
(* vm_name that is a string a document is returned.                        *)
(***************************************************************************)
C1_Precondition ==
    /\ HasVmConn
    /\ HasMember(VmConn, "public_ip")
    /\ Member(VmConn, "public_ip").t = "string"
    /\ Member(VmConn, "public_ip").s # ""
    /\ HasMember(VmConn, "vm_name")

C1_OneMatchingHost ==
    C1_Precondition =>
        /\ Returned =>
            /\ HasGroup
            /\ GroupHosts = <<ToPy(Member(VmConn, "vm_name"))>>
            /\ HasHostvars
            /\ ToPy(Member(VmConn, "vm_name")) \in DOMAIN Hostvars
            /\ Hostvars[ToPy(Member(VmConn, "vm_name"))].m[PyStr("ansible_host")]
                   = PyStr(Member(VmConn, "public_ip").s)
        /\ (Member(VmConn, "vm_name").t = "string" => pc # "aborted")

C1_Witness ==
    /\ C1_Precondition
    /\ pc = "done"
    /\ GroupHosts = <<PyStr("web1")>>
    /\ Hostvars[PyStr("web1")].m[PyStr("ansible_host")] = PyStr("20.1.2.3")

(***************************************************************************)
(* C2: a successfully parsed output without a public IP.                   *)
(***************************************************************************)
\* The claim's cases: a mapping with no vm_connection entry (the empty
\* mapping included), or a vm_connection.value with public_ip absent or "".
C2_NoPublicIp ==
    /\ Parsed
    /\ Printed.t = "object"
    /\ \/ ~HasMember(Printed, "vm_connection")
       \/ /\ HasVmConn
          /\ \/ ~HasMember(VmConn, "public_ip")
             \/ Member(VmConn, "public_ip") = JString("")

\* C2 as claimed: for every such output the returned document has the group
\* with an empty hosts list, and empty hostvars.
C2_AsClaimed ==
    (C2_NoPublicIp /\ Returned) =>
        /\ HasGroup
        /\ GroupHosts = <<>>
        /\ HasHostvars
        /\ DOMAIN Hostvars = {}

\* C2 as amended: for every such output a document is returned with no host
\* and empty hostvars; it has the group with an empty hosts list when the
\* outputs mapping is non-empty, and no group at all when the mapping is
\* empty.
C2_NoHostAdded ==
    (C2_NoPublicIp /\ pc \notin {"start", "loads", "generate"}) =>
        /\ Returned
        /\ HasHostvars
        /\ DOMAIN Hostvars = {}
        /\ ListedHosts = {}
        /\ IF DOMAIN Printed.m # {}
           THEN HasGroup /\ GroupHosts = <<>>
           ELSE DOMAIN inventory.m = {PyStr("_meta")}

C2_Witness ==
    /\ C2_NoPublicIp
    /\ HasVmConn
    /\ HasMember(VmConn, "public_ip")
    /\ Member(VmConn, "public_ip") = JString("")
    /\ pc = "done"
    /\ HasGroup
    /\ GroupHosts = <<>>

(***************************************************************************)
(* C3: after a non-zero exit or an unparseable output,                     *)
(* get_terraform_output returns {} without raising, the run is not         *)
(* aborted, and what it prints is exactly {"_meta": {"hostvars": {}}}.     *)
(***************************************************************************)
C3_RecoverableFailures ==
    (RecoverableFailure /\ pc \notin {"start", "loads"}) =>
        /\ tf_outputs = PyDict(<<>>)
        /\ pc # "aborted"
        /\ Returned => (~HasGroup /\ HasHostvars /\ DOMAIN Hostvars = {})
        /\ pc = "done" => (stdout = <<EmptyDocumentText>> /\ exitcode = 0)

C3_Witness ==
    /\ tool = "exit0"
    /\ ~proc_stdout.valid
    /\ pc = "done"
    /\ stdout = <<EmptyDocumentText>>

(***************************************************************************)
(* C4: when the tool cannot be started at all, the run still prints the    *)
(* empty inventory document and ends normally.                             *)
(***************************************************************************)
C4_AsClaimed ==
    (tool = "notfound" /\ Terminal) =>
        (stdout = <<EmptyDocumentText>> /\ exitcode = 0)

(***************************************************************************)
(* C5: a run writes to standard error exactly when the tool exited         *)
(* non-zero or its output failed to parse, and then exactly one message.   *)
(***************************************************************************)
C5_AsClaimed ==
    Terminal =>
        IF RecoverableFailure THEN Len(stderr) = 1 ELSE stderr = <<>>

(***************************************************************************)
(* C6: whatever the tool returns, the run prints exactly one document,     *)
(* and it is valid JSON that parses back into the structure                *)
(* generate_inventory built.                                               *)
(***************************************************************************)
C6_AsClaimed ==
    Terminal =>
        /\ Len(stdout) = 1
        /\ stdout[1].valid
        /\ json_loads(stdout[1]) = Return(inventory)

(***************************************************************************)
(* C7: every returned document has _meta.hostvars, whose keys are exactly  *)
(* the hosts listed in the webservers group (none when the group is        *)
(* absent), and at most one host is listed.                                *)
(***************************************************************************)
C7_HostvarsMatchHosts ==
    Returned =>
        /\ HasHostvars
        /\ DOMAIN Hostvars = ListedHosts
        /\ HasGroup => Len(GroupHosts) <= 1
        /\ Cardinality(DOMAIN Hostvars) <= 1

C7_Witness ==
    /\ pc = "done"
    /\ HasGroup
    /\ Len(GroupHosts) = 1
    /\ DOMAIN Hostvars = {GroupHosts[1]}

(***************************************************************************)
(* C8: the tool is invoked exactly once in a run, before anything is       *)
(* printed, and never again after a failed invocation.                     *)
(***************************************************************************)
C8_SingleInvocation ==
    /\ invocations = (IF pc = "start" THEN 0 ELSE 1)
    /\ (tool = "pending") = (pc = "start")
    /\ stdout # <<>> => (invocations = 1 /\ tool # "pending" /\ pc = "done")
    /\ Len(stdout) <= 1

C8_Witness ==
    /\ tool = "nonzero"
    /\ pc = "done"
    /\ invocations = 1
    /\ Len(stdout) = 1

(***************************************************************************)
(* C9: whenever the returned document has the webservers group, its vars   *)
(* are exactly the three hardcoded connection variables.                   *)
(***************************************************************************)
C9_HardcodedVars ==
    (Returned /\ HasGroup) =>
        /\ DOMAIN Group.m = {PyStr("hosts"), PyStr("vars")}
        /\ DOMAIN Group.m[PyStr("vars")].m =
               {PyStr("ansible_user"), PyStr("ansible_ssh_private_key_file"),
                PyStr("ansible_ssh_common_args")}
        /\ Group.m[PyStr("vars")].m[PyStr("ansible_user")] = PyStr("azureuser")
        /\ Group.m[PyStr("vars")].m[PyStr("ansible_ssh_private_key_file")]
               = PyStr("~/.ssh/terraform-demo/id_rsa")
        /\ Group.m[PyStr("vars")].m[PyStr("ansible_ssh_common_args")]
               = PyStr("-o StrictHostKeyChecking=no")

C9_Witness ==
    /\ pc = "done"
    /\ HasGroup
    /\ Len(GroupHosts) = 1
    /\ Group.m[PyStr("vars")].m[PyStr("ansible_user")] = PyStr("azureuser")

(***************************************************************************)
(* C10: for a vm_connection.value that is a mapping, a host is listed in   *)
(* the returned document exactly when public_ip is non-empty; without a    *)
(* vm_name the host is `unknown`, with ansible_host the public_ip; without *)
(* a private_ip the host's private_ip is ""; and the hostvar vm_name       *)
(* always equals the hostvars key and the listed host.                     *)
(***************************************************************************)
C10_HostNaming ==
    (HasVmConn /\ Returned) =>
        /\ HasGroup
        /\ (GroupHosts # <<>>) =
               (HasMember(VmConn, "public_ip") /\ NonEmpty(Member(VmConn, "public_ip")))
        /\ \A k \in DOMAIN Hostvars :
            /\ Hostvars[k].m[PyStr("vm_name")] = k
            /\ GroupHosts = <<k>>
            /\ Hostvars[k].m[PyStr("ansible_host")] = ToPy(Member(VmConn, "public_ip"))
            /\ ~HasMember(VmConn, "vm_name") => k = PyStr("unknown")
            /\ ~HasMember(VmConn, "private_ip") =>
                   Hostvars[k].m[PyStr("private_ip")] = PyStr("")

C10_Witness ==
    /\ HasVmConn
    /\ pc = "done"
    /\ ~HasMember(VmConn, "vm_name")
    /\ ~HasMember(VmConn, "private_ip")
    /\ GroupHosts = <<PyStr("unknown")>>
    /\ Hostvars[PyStr("unknown")].m[PyStr("private_ip")] = PyStr("")

====
